---------------------------- MODULE Spec2Model ----------------------------
(***************************************************************************)
(* A model of BuildTasks/PublishExtension/v5/vsixeditor.ts: the VSIXEditor *)
(* editing session, its archive round trip (endEdit), the manifest patcher *)
(* (editVsixManifest), the GalleryFlagsEditor and the output file name     *)
(* resolver (ManifestData.createOutputFilePath).                           *)
(*                                                                         *)
(* JavaScript strings are TLA+ strings (TLC evaluates Len, \o and SubSeq   *)
(* on them).  The JavaScript value null is the reserved string NULL, which *)
(* no input set contains.                                                  *)
(***************************************************************************)
EXTENDS Integers, Sequences, FiniteSets, TLC

VARIABLES
    \* ---- VSIXEditor fields (vsixeditor.ts:104-117)
    edit, versionNumber, id, idTag, publisher, extensionName,
    extensionVisibility, extensionPricing, updateTasksVersion, updateTasksId,
    inputFile,
    \* ---- the process and the file system around the session
    platform,        \* tl.getPlatform(): "win" or "posix"
    cwd,             \* process working directory (tl.cwd / tl.cd)
    inputManifest,   \* extension.vsixmanifest inside the input archive
    outputDirFiles,  \* names of the files present in outputPath
    tempDirs,        \* scratch directories that exist on disk
    scratchManifest, \* extension.vsixmanifest inside the directory dirPath
    probes,          \* fs.exists calls whose callback is not yet delivered
    \* ---- the endEdit call in flight (its position and its locals)
    pc, dirPath, manifestData,
    \* ---- what the last call did: its outcome and its side effects
    ret, effects,
    \* ---- a GalleryFlagsEditor instance on its own
    flags, flagsIn, flagsOp

session == <<edit, versionNumber, id, idTag, publisher, extensionName,
             extensionVisibility, extensionPricing, updateTasksVersion,
             updateTasksId, inputFile>>
pending == <<versionNumber, id, idTag, publisher, extensionName,
             extensionVisibility, extensionPricing, updateTasksVersion,
             updateTasksId>>
world   == <<platform, cwd, inputManifest, outputDirFiles, tempDirs,
             scratchManifest, probes>>
call    == <<pc, dirPath, manifestData>>
bench   == <<flags, flagsIn, flagsOp>>
vars    == <<session, world, call, ret, effects, bench>>

---------------------------------------------------------------------------
(* JavaScript values *)

NULL == "<null>"

\* JavaScript truthiness of a string-or-null value: null and "" are falsy.
Truthy(v) == v # NULL /\ v # ""

\* String.prototype.indexOf(sub) >= 0
Contains(s, sub) ==
    \E i \in 1..(Len(s) + 1) :
        /\ i + Len(sub) - 1 <= Len(s)
        /\ SubSeq(s, i, i + Len(sub) - 1) = sub

\* The elements of a sequence, and whether it repeats one.
Range(s) == { s[i] : i \in 1..Len(s) }
NoDup(s) == \A i, j \in 1..Len(s) : s[i] = s[j] => i = j

\* Array.prototype.indexOf: first position of x, 0 when absent (JS: -1).
IndexOf(s, x) ==
    IF x \in Range(s) THEN CHOOSE i \in 1..Len(s) :
                               s[i] = x /\ \A j \in 1..(i - 1) : s[j] # x
    ELSE 0

\* Array.prototype.splice(index, 1): s without its element at position i.
Splice1(s, i) == SubSeq(s, 1, i - 1) \o SubSeq(s, i + 1, Len(s))

\* String.prototype.split(" "): the pieces between single spaces, empty
\* pieces included ("a  b" gives "a", "", "b"; "" gives one empty piece).
RECURSIVE Split(_)
Split(s) ==
    IF \E i \in 1..Len(s) : SubSeq(s, i, i) = " "
    THEN LET i == CHOOSE k \in 1..Len(s) :
                      /\ SubSeq(s, k, k) = " "
                      /\ \A j \in 1..(k - 1) : SubSeq(s, j, j) # " "
         IN  <<SubSeq(s, 1, i - 1)>> \o Split(SubSeq(s, i + 1, Len(s)))
    ELSE <<s>>

\* Array.prototype.filter(f => f != null && f !== "")
RECURSIVE NonEmpty(_)
NonEmpty(s) ==
    IF s = <<>> THEN <<>>
    ELSE (IF Head(s) # NULL /\ Head(s) # "" THEN <<Head(s)>> ELSE <<>>)
         \o NonEmpty(Tail(s))

\* Array.prototype.join(" ")
RECURSIVE Join(_)
Join(s) ==
    IF s = <<>> THEN ""
    ELSE IF Len(s) = 1 THEN s[1]
    ELSE s[1] \o " " \o Join(Tail(s))

\* Number.prototype.toString().padStart(2, "0")
PadStart2(n) == IF Len(ToString(n)) < 2 THEN "0" \o ToString(n) ELSE ToString(n)

---------------------------------------------------------------------------
(* class GalleryFlagsEditor: the token list `flags` is a sequence of strings *)

\* constructor(galleryFlagsEditor: string)
GalleryFlagsEditor(text) ==
    IF Truthy(text) THEN NonEmpty(Split(text)) ELSE <<>>

\* An addFlag that puts a new token in front.
addFlag_AtFront(fl, flag) ==
    IF IndexOf(fl, flag) = 0 THEN <<flag>> \o fl ELSE fl

addFlag(fl, flag) ==
    IF IndexOf(fl, flag) = 0 THEN Append(fl, flag) ELSE fl

removeFlag(fl, flag) ==
    LET index == IndexOf(fl, flag)
    IN  IF index > 0 THEN Splice1(fl, index) ELSE fl

addPublicFlag(fl)     == addFlag(fl, "Public")
removePublicFlag(fl)  == removeFlag(fl, "Public")
removePaidFlag(fl)    == removeFlag(fl, "Paid")
addPaidFlag(fl)       == addFlag(fl, "Paid")
addPreviewFlag(fl)    == addFlag(fl, "Preview")
removePreviewFlag(fl) == removeFlag(fl, "Preview")

toString(fl) == Join(fl)

---------------------------------------------------------------------------
(* interface VsixManifest, as x2js.xml2js delivers it.  wellFormed is      *)
(* FALSE when the XML does not parse or has no PackageManifest / Metadata  *)
(* / Identity node: reading identity then throws a TypeError.              *)

Manifest(i, v, p, n, g) ==
    [exists |-> TRUE, wellFormed |-> TRUE, Id |-> i, Version |-> v,
     Publisher |-> p, DisplayName |-> n, GalleryFlags |-> g]

Malformed ==
    [exists |-> TRUE, wellFormed |-> FALSE, Id |-> NULL, Version |-> NULL,
     Publisher |-> NULL, DisplayName |-> NULL, GalleryFlags |-> NULL]

\* No extension.vsixmanifest file at all: fse.readFile rejects.
NoManifest == [Malformed EXCEPT !.exists = FALSE]

\* editVsixManifest, lines 241-262: the visibility block.
patchVisibility(galleryFlags, visibility) ==
    LET flagsEditor == GalleryFlagsEditor(galleryFlags)
        isPublic    == Contains(visibility, "public")
        isPreview   == Contains(visibility, "preview")
        f1 == IF isPublic THEN addPublicFlag(flagsEditor)
                          ELSE removePublicFlag(flagsEditor)
        f2 == IF isPreview THEN addPreviewFlag(f1)
                           ELSE removePreviewFlag(f1)
    IN  toString(f2)

\* A pricing block written like the visibility block: Paid is removed
\* whenever the request does not contain "paid".
patchPricing_Symmetric(galleryFlags, pricing) ==
    LET flagsEditor == GalleryFlagsEditor(galleryFlags)
        isPaid == Contains(pricing, "paid")
    IN  toString(IF isPaid THEN addPaidFlag(flagsEditor)
                           ELSE removePaidFlag(flagsEditor))

\* editVsixManifest, lines 263-278: the pricing block.
patchPricing(galleryFlags, pricing) ==
    LET flagsEditor == GalleryFlagsEditor(galleryFlags)
        isFree == Contains(pricing, "free")
        isPaid == Contains(pricing, "paid")
        f1 == IF isFree THEN removePaidFlag(flagsEditor) ELSE flagsEditor
        f2 == IF isPaid THEN addPaidFlag(f1) ELSE f1
    IN  toString(f2)

\* The GalleryFlags text after the visibility block and after both blocks.
flagsAfterVisibility(m) ==
    IF Truthy(extensionVisibility) /\ extensionVisibility # "default"
    THEN patchVisibility(m.GalleryFlags, extensionVisibility)
    ELSE m.GalleryFlags

flagsAfterPricing(m) ==
    IF Truthy(extensionPricing) /\ extensionPricing # "default"
    THEN patchPricing(flagsAfterVisibility(m), extensionPricing)
    ELSE flagsAfterVisibility(m)

\* A patch in which the suffix goes on the Id of the input even when a
\* replacement Id is pending.
editVsixManifest_TagOnInput(m) ==
    [exists |-> TRUE, wellFormed |-> TRUE,
     Id |-> IF Truthy(idTag) THEN m.Id \o idTag
            ELSE IF Truthy(id) THEN id ELSE m.Id,
     Version |-> IF Truthy(versionNumber) THEN versionNumber ELSE m.Version,
     Publisher |-> IF Truthy(publisher) THEN publisher ELSE m.Publisher,
     DisplayName |-> IF Truthy(extensionName) THEN extensionName
                                              ELSE m.DisplayName,
     GalleryFlags |-> flagsAfterPricing(m)]

\* editVsixManifest, lines 236-280: the manifest m with the pending values
\* of the session applied (m is well formed).
editVsixManifest(m) ==
    LET version == IF Truthy(versionNumber) THEN versionNumber ELSE m.Version
        id1     == IF Truthy(id) THEN id ELSE m.Id
        id2     == IF Truthy(idTag) THEN id1 \o idTag ELSE id1
        pub     == IF Truthy(publisher) THEN publisher ELSE m.Publisher
        name    == IF Truthy(extensionName) THEN extensionName
                                            ELSE m.DisplayName
    IN  [exists |-> TRUE, wellFormed |-> TRUE, Id |-> id2,
         Version |-> version, Publisher |-> pub, DisplayName |-> name,
         GalleryFlags |-> flagsAfterPricing(m)]

\* A ManifestData built from the manifest as it was read, before patching.
ManifestData_PrePatch(m, dir) ==
    [version |-> scratchManifest.Version, id |-> scratchManifest.Id,
     publisher |-> scratchManifest.Publisher,
     visibility |-> extensionVisibility, pricing |-> extensionPricing,
     name |-> m.DisplayName, dirPath |-> dir, outputFileName |-> NULL]

\* new ManifestData(...), lines 281-287, from the patched manifest m.
ManifestData(m, dir) ==
    [version |-> m.Version, id |-> m.Id, publisher |-> m.Publisher,
     visibility |-> extensionVisibility, pricing |-> extensionPricing,
     name |-> m.DisplayName, dirPath |-> dir, outputFileName |-> NULL]

NoManifestData ==
    [version |-> NULL, id |-> NULL, publisher |-> NULL, visibility |-> NULL,
     pricing |-> NULL, name |-> NULL, dirPath |-> NULL,
     outputFileName |-> NULL]

\* updateFileName, lines 38-41: the candidate name of an iteration.
GenFileName(md, iteration) ==
    IF iteration > 0
    THEN md.publisher \o "." \o md.id \o "-" \o md.version
         \o ".gen" \o PadStart2(iteration) \o ".vsix"
    ELSE md.publisher \o "." \o md.id \o "-" \o md.version \o ".gen.vsix"

\* createOutputFilePath, lines 35 and 53: the value it returns is the outer
\* constant fileName; the names updateFileName computes are parameters of
\* the inner function and never reach it.
createOutputFilePath(md) == GenFileName(md, 0)

\* createOutputFilePath, line 51: the fs.exists call it leaves behind.
FirstProbe(md) ==
    [publisher |-> md.publisher, id |-> md.id, version |-> md.version,
     fileName |-> GenFileName(md, 0), iteration |-> 0]

\* hasEdits without its last operand, `|| this.updateTasksId`.
hasEdits_NoTasksId ==
    \/ Truthy(versionNumber)
    \/ Truthy(id)
    \/ Truthy(idTag)
    \/ Truthy(publisher)
    \/ Truthy(extensionName)
    \/ (Truthy(extensionVisibility) /\ extensionVisibility # "default")
    \/ (Truthy(extensionPricing) /\ extensionPricing # "default")

\* hasEdits(), lines 293-302, by JavaScript truthiness.
hasEdits ==
    \/ Truthy(versionNumber)
    \/ Truthy(id)
    \/ Truthy(idTag)
    \/ Truthy(publisher)
    \/ Truthy(extensionName)
    \/ (Truthy(extensionVisibility) /\ extensionVisibility # "default")
    \/ (Truthy(extensionPricing) /\ extensionPricing # "default")
    \/ updateTasksId

\* The condition of line 208 with the other grouping.
updatesTasks_And ==
    Truthy(versionNumber) /\ (updateTasksVersion \/ updateTasksId)

\* endEdit, line 208: whether the nested task manifests are updated.
updatesTasks == (Truthy(versionNumber) /\ updateTasksVersion) \/ updateTasksId

\* A guard that never throws.
validateEditMode_Off == TRUE

\* validateEditMode(), lines 349-351: TRUE when it returns, FALSE when it
\* throws "Editing is not started".
validateEditMode == edit

---------------------------------------------------------------------------
(* Bounds and input sets *)

\* Full round trips one behaviour may start (each leaves a scratch directory).
MaxRoundTrips == 1

Versions     == {"", "2"}
Ids          == {"y"}
IdTags       == {"t"}
Publishers   == {"q"}
Names        == {"N"}
Visibilities == {"default", "public"}
Pricings     == {"default", "paid"}

\* Tokens in a GalleryFlags text a behaviour starts from.
MaxFlags == 3

FlagTokens == {"Public", "Preview", "Paid", "Beta"}
FlagTexts ==
    { Join(t) : t \in UNION { [1..n -> FlagTokens] : n \in 0..MaxFlags } }
    \cup {NULL, " Public  Paid ", "public Beta"}

VisibilityRequests ==
    {"", "default", "public", "private", "preview", "publicpreview",
     "private preview", "Public"}
PricingRequests == {"", "default", "free", "paid", "free,paid", "trial"}

FieldValues(v) == {NULL, "", v}

WorkDir    == "/work"
InputFile  == "p.x-1.gen.vsix"
InputManifests == { Manifest("x", "1", "p", "n", "Public"), Malformed }
\* Earlier outputs found in outputPath.
OutputDirListing == { "p.x-2.gen.vsix", "p.x-2.gen01.vsix" }

---------------------------------------------------------------------------
(* Outcomes of a call *)

Returned(op, v) == [op |-> op, outcome |-> "returned", value |-> v]
Threw(op)       == [op |-> op, outcome |-> "threw", value |-> NULL]
Pending(op)     == [op |-> op, outcome |-> "pending", value |-> NULL]
\* An edit method returned (it returns nothing, whichever method it is).
Edited          == Returned("edit", NULL)

\* The locals of endEdit once it has completed.
CallOver ==
    /\ pc' = "idle"
    /\ dirPath' = NULL
    /\ manifestData' = NoManifestData
    /\ scratchManifest' = NoManifest

---------------------------------------------------------------------------
(* new VSIXEditor(inputFile, outputPath), lines 104-118 *)

InitSession ==
    /\ edit = FALSE
    /\ versionNumber = NULL
    /\ id = NULL
    /\ idTag = NULL
    /\ publisher = NULL
    /\ extensionName = NULL
    /\ extensionVisibility = NULL
    /\ extensionPricing = NULL
    /\ updateTasksVersion = TRUE
    /\ updateTasksId = TRUE
    /\ inputFile = InputFile

InitCall ==
    /\ pc = "idle"
    /\ dirPath = NULL
    /\ manifestData = NoManifestData
    /\ scratchManifest = NoManifest
    /\ ret = Returned("new", NULL)
    /\ effects = <<>>

InitBench ==
    /\ flags = <<>>
    /\ flagsIn = NULL
    /\ flagsOp = "none"

Init ==
    /\ InitSession
    /\ InitCall
    /\ InitBench
    /\ platform \in {"win", "posix"}
    /\ cwd = WorkDir
    /\ inputManifest \in InputManifests
    /\ outputDirFiles = OutputDirListing
    /\ tempDirs = {}
    /\ probes = {}

---------------------------------------------------------------------------
(* The public methods.  The caller is a single flow: it makes its next     *)
(* call when no endEdit is in flight and the callbacks endEdit left behind *)
(* have been delivered (they read nothing a call can change).              *)

CallerTurn == pc = "idle" /\ probes = {}

\* startEdit without its guard: it starts the session again.
StartEdit_NoGuard ==
    /\ CallerTurn
    /\ edit' = TRUE
    /\ ret' = Returned("startEdit", NULL)
    /\ effects' = <<>>
    /\ UNCHANGED <<pending, inputFile, world, call, bench>>

\* startEdit(), lines 120-124
StartEdit ==
    /\ CallerTurn
    /\ IF edit
       THEN ret' = Threw("startEdit") /\ UNCHANGED edit
       ELSE edit' = TRUE /\ ret' = Returned("startEdit", NULL)
    /\ effects' = <<>>
    /\ UNCHANGED <<pending, inputFile, world, call, bench>>

\* hasEdits(), lines 293-302
HasEdits ==
    /\ CallerTurn
    /\ ret' = Returned("hasEdits", IF hasEdits THEN "true" ELSE "false")
    /\ effects' = <<>>
    /\ UNCHANGED <<session, world, call, bench>>

\* An editVersion that keeps a version already pending.
EditVersionTo_KeepsFirst(version) ==
    /\ CallerTurn
    /\ IF validateEditMode
        THEN /\ versionNumber' = IF versionNumber = NULL THEN version
                                                         ELSE versionNumber
             /\ ret' = Edited
        ELSE UNCHANGED versionNumber /\ ret' = Threw("editVersion")
    /\ effects' = <<>>
    /\ UNCHANGED <<edit, id, idTag, publisher, extensionName,
                   extensionVisibility, extensionPricing, updateTasksVersion,
                   updateTasksId, inputFile, world, call, bench>>

\* editVersion(version), lines 304-307
EditVersionTo(version) ==
    /\ CallerTurn
    /\ IF validateEditMode
        THEN versionNumber' = version /\ ret' = Edited
        ELSE UNCHANGED versionNumber /\ ret' = Threw("editVersion")
    /\ effects' = <<>>
    /\ UNCHANGED <<edit, id, idTag, publisher, extensionName,
                   extensionVisibility, extensionPricing, updateTasksVersion,
                   updateTasksId, inputFile, world, call, bench>>

EditVersion == \E version \in Versions : EditVersionTo(version)

\* editExtensionName(name), lines 309-312
EditExtensionNameTo(name) ==
    /\ CallerTurn
    /\ IF validateEditMode
        THEN extensionName' = name
             /\ ret' = Edited
        ELSE UNCHANGED extensionName /\ ret' = Threw("editExtensionName")
    /\ effects' = <<>>
    /\ UNCHANGED <<edit, versionNumber, id, idTag, publisher,
                   extensionVisibility, extensionPricing, updateTasksVersion,
                   updateTasksId, inputFile, world, call, bench>>

EditExtensionName == \E name \in Names : EditExtensionNameTo(name)

\* editExtensionVisibility(visibility), lines 314-317
EditExtensionVisibilityTo(visibility) ==
    /\ CallerTurn
    /\ IF validateEditMode
        THEN extensionVisibility' = visibility /\ ret' = Edited
        ELSE UNCHANGED extensionVisibility
             /\ ret' = Threw("editExtensionVisibility")
    /\ effects' = <<>>
    /\ UNCHANGED <<edit, versionNumber, id, idTag, publisher, extensionName,
                   extensionPricing, updateTasksVersion, updateTasksId,
                   inputFile, world, call, bench>>

\* editExtensionVisibility with a visibility drawn from the set S
EditExtensionVisibilityOf(S) ==
    \E visibility \in S : EditExtensionVisibilityTo(visibility)

EditExtensionVisibility == EditExtensionVisibilityOf(Visibilities)

\* editExtensionPricing(pricing), lines 319-322
EditExtensionPricingTo(pricing) ==
    /\ CallerTurn
    /\ IF validateEditMode
        THEN extensionPricing' = pricing /\ ret' = Edited
        ELSE UNCHANGED extensionPricing
             /\ ret' = Threw("editExtensionPricing")
    /\ effects' = <<>>
    /\ UNCHANGED <<edit, versionNumber, id, idTag, publisher, extensionName,
                   extensionVisibility, updateTasksVersion, updateTasksId,
                   inputFile, world, call, bench>>

\* editExtensionPricing with a pricing drawn from the set S
EditExtensionPricingOf(S) ==
    \E pricing \in S : EditExtensionPricingTo(pricing)

EditExtensionPricing == EditExtensionPricingOf(Pricings)

\* editId(id), lines 324-327
EditIdTo(newId) ==
    /\ CallerTurn
    /\ IF validateEditMode
        THEN id' = newId /\ ret' = Edited
        ELSE UNCHANGED id /\ ret' = Threw("editId")
    /\ effects' = <<>>
    /\ UNCHANGED <<edit, versionNumber, idTag, publisher, extensionName,
                   extensionVisibility, extensionPricing, updateTasksVersion,
                   updateTasksId, inputFile, world, call, bench>>

EditId == \E newId \in Ids : EditIdTo(newId)

\* editIdTag(tag), lines 329-332
EditIdTagTo(tag) ==
    /\ CallerTurn
    /\ IF validateEditMode
        THEN idTag' = tag /\ ret' = Edited
        ELSE UNCHANGED idTag /\ ret' = Threw("editIdTag")
    /\ effects' = <<>>
    /\ UNCHANGED <<edit, versionNumber, id, publisher, extensionName,
                   extensionVisibility, extensionPricing, updateTasksVersion,
                   updateTasksId, inputFile, world, call, bench>>

EditIdTag == \E tag \in IdTags : EditIdTagTo(tag)

\* editPublisher(publisher), lines 334-337
EditPublisherTo(newPublisher) ==
    /\ CallerTurn
    /\ IF validateEditMode
        THEN publisher' = newPublisher
             /\ ret' = Edited
        ELSE UNCHANGED publisher /\ ret' = Threw("editPublisher")
    /\ effects' = <<>>
    /\ UNCHANGED <<edit, versionNumber, id, idTag, extensionName,
                   extensionVisibility, extensionPricing, updateTasksVersion,
                   updateTasksId, inputFile, world, call, bench>>

EditPublisher == \E newPublisher \in Publishers : EditPublisherTo(newPublisher)

\* editUpdateTasksVersion(updateTasksVersion), lines 339-342
EditUpdateTasksVersionTo(b) ==
    /\ CallerTurn
    /\ IF validateEditMode
        THEN updateTasksVersion' = b
             /\ ret' = Edited
        ELSE UNCHANGED updateTasksVersion
             /\ ret' = Threw("editUpdateTasksVersion")
    /\ effects' = <<>>
    /\ UNCHANGED <<edit, versionNumber, id, idTag, publisher, extensionName,
                   extensionVisibility, extensionPricing, updateTasksId,
                   inputFile, world, call, bench>>

EditUpdateTasksVersion == \E b \in BOOLEAN : EditUpdateTasksVersionTo(b)

\* editUpdateTasksId(updateTasksId), lines 344-347
EditUpdateTasksIdTo(b) ==
    /\ CallerTurn
    /\ IF validateEditMode
        THEN updateTasksId' = b
             /\ ret' = Edited
        ELSE UNCHANGED updateTasksId /\ ret' = Threw("editUpdateTasksId")
    /\ effects' = <<>>
    /\ UNCHANGED <<edit, versionNumber, id, idTag, publisher, extensionName,
                   extensionVisibility, extensionPricing, updateTasksVersion,
                   inputFile, world, call, bench>>

EditUpdateTasksId == \E b \in BOOLEAN : EditUpdateTasksIdTo(b)

---------------------------------------------------------------------------
(* endEdit(), lines 197-223: an async function, one action per stretch of  *)
(* code between two suspension points.  effects lists what the call has    *)
(* done to the world so far.                                               *)

\* What an archive tool invocation can do: run and succeed, run and exit
\* with a failure that ToolRunner.execSync reports in its result (which the
\* code never reads), not be found (tl.which(..., true) or the import of
\* 7zip-bin throws), or make execSync itself throw.
ToolOutcomes == {"ok", "failed", "toolMissing", "execThrew"}

NewDir == "/tmp/vsixeditor" \o ToString(Cardinality(tempDirs) + 1)

\* endEdit without line 200: it starts the round trip whatever is pending.
EndEdit_NoFastPath ==
    /\ CallerTurn
    /\ IF ~validateEditMode
       THEN /\ ret' = Threw("endEdit")
            /\ effects' = <<>>
            /\ UNCHANGED pc
       ELSE /\ Cardinality(tempDirs) < MaxRoundTrips
            /\ ret' = Pending("endEdit")
            /\ effects' = <<"temp.track">>
            /\ pc' = "mkdir"
    /\ UNCHANGED <<session, world, dirPath, manifestData, bench>>

\* lines 197-204: the guard, the fast path, temp.track() and the call of
\* temp.mkdir.
EndEdit ==
    /\ CallerTurn
    /\ IF ~validateEditMode
       THEN /\ ret' = Threw("endEdit")
            /\ effects' = <<>>
            /\ UNCHANGED pc
       ELSE IF ~hasEdits
       THEN /\ ret' = Returned("endEdit", inputFile)
            /\ effects' = <<>>
            /\ UNCHANGED pc
       ELSE /\ Cardinality(tempDirs) < MaxRoundTrips
            /\ ret' = Pending("endEdit")
            /\ effects' = <<"temp.track">>
            /\ pc' = "mkdir"
    /\ UNCHANGED <<session, world, dirPath, manifestData, bench>>

\* line 204: temp.mkdir resolves with a fresh directory, or rejects.
Mkdir ==
    /\ pc = "mkdir"
    /\ \/ /\ dirPath' = NewDir
          /\ tempDirs' = tempDirs \cup {NewDir}
          /\ effects' = Append(effects, "mkdir")
          /\ pc' = "extract"
          /\ UNCHANGED <<ret, manifestData, scratchManifest>>
       \/ /\ ret' = Threw("endEdit")
          /\ CallOver
          /\ UNCHANGED <<tempDirs, effects>>
    /\ UNCHANGED <<session, platform, cwd, inputManifest, outputDirFiles,
                   probes, bench>>

\* line 207: extractArchive(inputFile, dirPath), lines 126-162.  The tool
\* writes into tmpPath and the saved working directory is set again at the
\* end (line 161); nothing in between changes it.
Extract ==
    /\ pc = "extract"
    /\ \E outcome \in ToolOutcomes :
        IF outcome \in {"toolMissing", "execThrew"}
        THEN /\ ret' = Threw("endEdit")
             /\ effects' = IF outcome = "execThrew"
                           THEN Append(effects, "extractFailed") ELSE effects
             /\ CallOver
        ELSE /\ scratchManifest' =
                    IF outcome = "ok" THEN inputManifest ELSE NoManifest
             /\ effects' = Append(effects, IF outcome = "ok" THEN "extract"
                                           ELSE "extractFailed")
             /\ pc' = IF updatesTasks THEN "tasks" ELSE "edit"
             /\ UNCHANGED <<ret, dirPath, manifestData>>
    /\ cwd' = cwd
    /\ UNCHANGED <<session, platform, inputManifest, outputDirFiles, tempDirs,
                   probes, bench>>

\* lines 208-212: common.checkUpdateTasksManifests resolves or rejects.
UpdateTasks ==
    /\ pc = "tasks"
    /\ \/ /\ effects' = Append(effects, "updateTasks")
          /\ pc' = "edit"
          /\ UNCHANGED <<ret, dirPath, manifestData, scratchManifest>>
       \/ /\ ret' = Threw("endEdit")
          /\ CallOver
          /\ UNCHANGED effects
    /\ UNCHANGED <<session, platform, cwd, inputManifest, outputDirFiles,
                   tempDirs, probes, bench>>

\* A patch that goes on with whatever the parser produced.
EditManifest_NoParseCheck ==
    /\ pc = "edit"
    /\ scratchManifest.exists
    /\ scratchManifest' = editVsixManifest(scratchManifest)
    /\ manifestData' = ManifestData(editVsixManifest(scratchManifest), dirPath)
    /\ effects' = effects \o <<"readManifest", "writeManifest">>
    /\ pc' = "archive"
    /\ UNCHANGED <<ret, dirPath>>
    /\ UNCHANGED <<session, platform, cwd, inputManifest, outputDirFiles,
                   tempDirs, probes, bench>>

\* line 215: editVsixManifest(dirPath), lines 225-291: read, parse, patch,
\* serialize, write.
EditManifest ==
    /\ pc = "edit"
    /\ IF ~scratchManifest.exists
       THEN /\ ret' = Threw("endEdit")
            /\ CallOver
            /\ UNCHANGED effects
       ELSE IF ~scratchManifest.wellFormed
       THEN /\ ret' = Threw("endEdit")
            /\ effects' = Append(effects, "readManifest")
            /\ CallOver
       ELSE /\ scratchManifest' = editVsixManifest(scratchManifest)
            /\ manifestData' =
                   ManifestData(editVsixManifest(scratchManifest), dirPath)
            /\ effects' = effects \o <<"readManifest", "writeManifest">>
            /\ pc' = "archive"
            /\ UNCHANGED <<ret, dirPath>>
    /\ UNCHANGED <<session, platform, cwd, inputManifest, outputDirFiles,
                   tempDirs, probes, bench>>

\* A createArchive that copies whatever the two names are.
Archive_CopiesAlways ==
    /\ pc = "archive"
    /\ manifestData' = [manifestData EXCEPT
                        !.outputFileName = createOutputFilePath(manifestData)]
    /\ probes' = probes \cup {FirstProbe(manifestData)}
    /\ effects' = effects \o <<"resolveName", "cp">>
    /\ pc' = "zip"
    /\ UNCHANGED <<session, platform, cwd, inputManifest, outputDirFiles,
                   tempDirs, scratchManifest, dirPath, ret, bench>>

\* lines 216-219 and createArchive, lines 164-168: the output name is
\* resolved (which leaves an fs.exists call behind) and the input archive
\* is copied to it unless the two names are equal.
Archive ==
    /\ pc = "archive"
    /\ LET name == createOutputFilePath(manifestData)
       IN  /\ manifestData' = [manifestData EXCEPT !.outputFileName = name]
           /\ probes' = probes \cup {FirstProbe(manifestData)}
           /\ effects' = effects \o <<"resolveName">>
                         \o (IF inputFile # name THEN <<"cp">> ELSE <<>>)
    /\ pc' = "zip"
    /\ UNCHANGED <<session, platform, cwd, inputManifest, outputDirFiles,
                   tempDirs, scratchManifest, dirPath, ret, bench>>

\* createArchive, lines 169-195, and the return of endEdit, line 222.  On
\* posix the tool runs from tmpPath (line 186, after tl.which); line 194
\* sets the saved working directory again when execSync returned.  The tool
\* updates targetVsix, which is the input archive itself when the two names
\* are equal.
Zip ==
    /\ pc = "zip"
    /\ \E outcome \in ToolOutcomes :
        /\ IF outcome \in {"toolMissing", "execThrew"}
           THEN /\ ret' = Threw("endEdit")
                /\ effects' = IF outcome = "execThrew"
                              THEN Append(effects, "zipFailed") ELSE effects
                /\ cwd' = IF outcome = "execThrew" /\ platform = "posix"
                          THEN manifestData.dirPath ELSE cwd
                /\ UNCHANGED inputManifest
           ELSE /\ ret' = Returned("endEdit", manifestData.outputFileName)
                /\ effects' = Append(effects, IF outcome = "ok" THEN "zip"
                                              ELSE "zipFailed")
                /\ cwd' = cwd
                /\ inputManifest' =
                       IF outcome = "ok"
                          /\ manifestData.outputFileName = inputFile
                       THEN scratchManifest ELSE inputManifest
        /\ CallOver
    /\ UNCHANGED <<session, platform, outputDirFiles, tempDirs, probes,
                   bench>>

\* The callback of fs.exists, lines 42-48.  It is an I/O callback: it runs
\* when the flow is suspended on I/O or over, so on posix, where
\* createArchive runs to its end without suspending, not before endEdit has
\* returned.
ProbeCallback ==
    /\ ~(platform = "posix" /\ pc = "zip")
    /\ \E p \in probes :
        LET result == p.fileName \in outputDirFiles
            next   == [p EXCEPT !.iteration = p.iteration + 1,
                                !.fileName = GenFileName(p, p.iteration + 1)]
        IN  probes' = IF result THEN (probes \ {p}) \cup {next}
                                ELSE probes \ {p}
    /\ UNCHANGED <<session, platform, cwd, inputManifest, outputDirFiles,
                   tempDirs, scratchManifest, call, ret, effects, bench>>

Next ==
    \/ StartEdit
    \/ HasEdits
    \/ EditVersion
    \/ EditExtensionName
    \/ EditExtensionVisibility
    \/ EditExtensionPricing
    \/ EditId
    \/ EditIdTag
    \/ EditPublisher
    \/ EditUpdateTasksVersion
    \/ EditUpdateTasksId
    \/ EndEdit
    \/ Mkdir
    \/ Extract
    \/ UpdateTasks
    \/ EditManifest
    \/ Archive
    \/ Zip
    \/ ProbeCallback

Spec == Init /\ [][Next]_vars

---------------------------------------------------------------------------
(* hasEdits() over every combination of pending values: the sessions that  *)
(* startEdit and the edit methods, called with these values, lead to.      *)

InitHasEdits ==
    /\ edit = TRUE
    /\ versionNumber \in FieldValues("2")
    /\ id \in FieldValues("y")
    /\ idTag \in FieldValues("t")
    /\ publisher \in FieldValues("q")
    /\ extensionName \in FieldValues("N")
    /\ extensionVisibility \in FieldValues("public") \cup {"default"}
    /\ extensionPricing \in FieldValues("paid") \cup {"default"}
    /\ updateTasksVersion \in BOOLEAN
    /\ updateTasksId \in BOOLEAN
    /\ inputFile = InputFile
    /\ InitCall
    /\ InitBench
    /\ platform = "posix"
    /\ cwd = WorkDir
    /\ inputManifest = Manifest("x", "1", "p", "n", "Public")
    /\ outputDirFiles = OutputDirListing
    /\ tempDirs = {}
    /\ probes = {}

NextHasEdits == HasEdits

SpecHasEdits == InitHasEdits /\ [][NextHasEdits]_vars

---------------------------------------------------------------------------
(* The manifest patcher over many GalleryFlags texts and requests: a       *)
(* session that sets a visibility and a pricing and runs endEdit up to the *)
(* patched manifest.                                                       *)

InitPatch ==
    /\ InitSession
    /\ InitCall
    /\ InitBench
    /\ platform = "posix"
    /\ cwd = WorkDir
    /\ inputManifest \in { Manifest("x", "1", "p", "n", g) : g \in FlagTexts }
    /\ outputDirFiles = {}
    /\ tempDirs = {}
    /\ probes = {}

NextPatch ==
    \/ StartEdit
    \/ EditExtensionVisibilityOf(VisibilityRequests)
    \/ EditExtensionPricingOf(PricingRequests)
    \/ EndEdit
    \/ Mkdir
    \/ Extract
    \/ UpdateTasks
    \/ EditManifest

SpecPatch == InitPatch /\ [][NextPatch]_vars

---------------------------------------------------------------------------
(* A GalleryFlagsEditor on its own: constructed from a text, then any      *)
(* sequence of its six public methods.                                     *)

InitFlags ==
    /\ InitSession
    /\ InitCall
    /\ platform = "posix"
    /\ cwd = WorkDir
    /\ inputManifest = Manifest("x", "1", "p", "n", "Public")
    /\ outputDirFiles = {}
    /\ tempDirs = {}
    /\ probes = {}
    /\ flagsIn \in FlagTexts
    /\ flags = GalleryFlagsEditor(flagsIn)
    /\ flagsOp = "new"

FlagsCall(op, result) ==
    /\ flags' = result
    /\ flagsOp' = op
    /\ UNCHANGED <<flagsIn, session, world, call, ret, effects>>

CallAddPublicFlag     == FlagsCall("addPublicFlag", addPublicFlag(flags))
CallRemovePublicFlag  == FlagsCall("removePublicFlag", removePublicFlag(flags))
CallRemovePaidFlag    == FlagsCall("removePaidFlag", removePaidFlag(flags))
CallAddPaidFlag       == FlagsCall("addPaidFlag", addPaidFlag(flags))
CallAddPreviewFlag    == FlagsCall("addPreviewFlag", addPreviewFlag(flags))
CallRemovePreviewFlag ==
    FlagsCall("removePreviewFlag", removePreviewFlag(flags))

NextFlags ==
    \/ CallAddPublicFlag
    \/ CallRemovePublicFlag
    \/ CallRemovePaidFlag
    \/ CallAddPaidFlag
    \/ CallAddPreviewFlag
    \/ CallRemovePreviewFlag

SpecFlags == InitFlags /\ [][NextFlags]_vars

---------------------------------------------------------------------------
(* Properties of the session *)

AnyEdit ==
    \/ EditVersion
    \/ EditId
    \/ EditIdTag
    \/ EditPublisher
    \/ EditExtensionName
    \/ EditExtensionVisibility
    \/ EditExtensionPricing
    \/ EditUpdateTasksVersion
    \/ EditUpdateTasksId

EditMethods ==
    {"editVersion", "editId", "editIdTag", "editPublisher",
     "editExtensionName", "editExtensionVisibility", "editExtensionPricing",
     "editUpdateTasksVersion", "editUpdateTasksId"}

\* C1: while startEdit has never been called (edit is still false), every
\* edit method and endEdit throws, and the call leaves the started flag,
\* every pending value, the world and the call state as they were.
C1_FailsBeforeStart ==
    [][ (~edit /\ (AnyEdit \/ EndEdit))
        => /\ ret'.outcome = "threw"
           /\ effects' = <<>>
           /\ UNCHANGED <<session, world, call>> ]_vars

\* An edit method or endEdit has thrown on a session that was never started.
C1_Witness ==
    /\ ~edit
    /\ ret.outcome = "threw"
    /\ ret.op \in EditMethods \cup {"endEdit"}

\* C2: the started flag never goes from true to false, only startEdit
\* changes it; startEdit on a session that is not started sets it and
\* returns, and startEdit on a started session (a round trip may already
\* have run) throws and changes nothing.
C2_StartedOnce ==
    [][ /\ edit => edit'
        /\ edit' # edit => StartEdit
        /\ StartEdit =>
              IF edit
              THEN ret' = Threw("startEdit")
                   /\ UNCHANGED <<session, world, call>>
              ELSE edit' /\ ret' = Returned("startEdit", NULL) ]_vars

\* startEdit has thrown on a session whose endEdit has already run a round
\* trip.
C2_Witness ==
    /\ edit
    /\ ret = Threw("startEdit")
    /\ tempDirs # {}

\* C3: once endEdit has completed on a started session, the next call of
\* endEdit or of an edit method throws.
C3_SingleUse ==
    [][ (/\ edit
         /\ ret.op = "endEdit"
         /\ ret.outcome # "pending"
         /\ AnyEdit \/ EndEdit)
        => ret'.outcome = "threw" ]_vars

\* What the claim C4 says hasEdits() answers.
SomethingPending ==
    \/ \E v \in {versionNumber, id, idTag, publisher, extensionName} :
           v \notin {NULL, ""}
    \/ extensionVisibility \notin {NULL, "", "default"}
    \/ extensionPricing \notin {NULL, "", "default"}
    \/ updateTasksId = TRUE

\* C4: hasEdits() answers true exactly when one of version, id, idSuffix,
\* publisher, displayName holds a non-empty value, or visibility or pricing
\* holds a non-empty value other than "default", or updateTasksId is true;
\* and the call changes nothing of the session, the world or a call.
C4_HasEdits ==
    [][ HasEdits
        => /\ ret'.value = (IF SomethingPending THEN "true" ELSE "false")
           /\ UNCHANGED <<session, world, call>> ]_vars

\* hasEdits() has answered false on a started session whose string fields
\* hold "" or "default" and whose updateTasksId is false.
C4_Witness ==
    /\ ret = Returned("hasEdits", "false")
    /\ edit
    /\ versionNumber = ""
    /\ extensionVisibility = "default"
    /\ ~updateTasksId

\* C5: endEdit on a started session with nothing pending returns the input
\* archive path and does nothing else: no temp.track, no scratch directory,
\* no extraction, no task manifest update, no manifest read or write, no
\* copy, no compression, now or later.
C5_FastPath ==
    [][ (EndEdit /\ edit /\ ~SomethingPending)
        => /\ ret' = Returned("endEdit", inputFile)
           /\ effects' = <<>>
           /\ pc' = "idle"
           /\ UNCHANGED <<session, world, call>> ]_vars

\* endEdit has returned by the fast path.
C5_Witness ==
    /\ edit
    /\ ~SomethingPending
    /\ ret = Returned("endEdit", inputFile)
    /\ effects = <<>>

\* The first name of gen, gen01, gen02, ... that is not in outputPath.
FirstFreeName(md) ==
    LET free(k)  == GenFileName(md, k) \notin outputDirFiles
        first    == CHOOSE k \in 0..Cardinality(outputDirFiles) :
                        free(k) /\ \A j \in 0..(k - 1) : ~free(j)
    IN  GenFileName(md, first)

\* C6: the name createOutputFilePath returned (endEdit is about to compress
\* into it) is the first name of gen, gen01, gen02, ... that does not exist
\* in the output directory.
C6_CollisionSafe ==
    pc = "zip" => manifestData.outputFileName = FirstFreeName(manifestData)

\* The identity the claim C7 expects in the output name: the pending value
\* where one is pending, the input manifest's value otherwise.
ExpectedName ==
    LET v == IF versionNumber \notin {NULL, ""} THEN versionNumber
                                                ELSE inputManifest.Version
        b == IF id \notin {NULL, ""} THEN id ELSE inputManifest.Id
        i == IF idTag \notin {NULL, ""} THEN b \o idTag ELSE b
        p == IF publisher \notin {NULL, ""} THEN publisher
                                            ELSE inputManifest.Publisher
    IN  p \o "." \o i \o "-" \o v \o ".gen.vsix"

\* C7: when that name collides with no file of the output directory, a full
\* round trip returns publisher.id-version.gen.vsix built from the identity
\* as patched.
C7_PatchedName ==
    [][ (Zip /\ ret'.outcome = "returned" /\ ExpectedName \notin outputDirFiles)
        => ret'.value = ExpectedName ]_vars

\* A round trip has returned a name built from an edited id, id suffix and
\* publisher.
C7_Witness ==
    /\ ret.op = "endEdit"
    /\ ret.outcome = "returned"
    /\ effects # <<>>
    /\ id = "y" /\ idTag = "t" /\ publisher = "q"
    /\ ret.value = "q.yt-1.gen.vsix"

---------------------------------------------------------------------------
(* Properties of the gallery flags *)

\* The tokens of s that are not in the set S, in their order.
RECURSIVE Without(_, _)
Without(s, S) ==
    IF s = <<>> THEN <<>>
    ELSE (IF Head(s) \in S THEN <<>> ELSE <<Head(s)>>) \o Without(Tail(s), S)

\* The tokens of a GalleryFlags text.
TokensOf(text) == GalleryFlagsEditor(text)

VisibilityRequested ==
    extensionVisibility \notin {NULL, "", "default"}
PricingRequested ==
    extensionPricing \notin {NULL, "", "default"}

\* The manifest has just been patched by this step.
Patched == EditManifest /\ pc' = "archive"

\* C8: for any GalleryFlags text and any visibility request other than
\* "default", after patching Public is present exactly when the request
\* contains "public" and Preview exactly when it contains "preview", and
\* (no pricing request being applied by the same patch) the other tokens
\* are the same, in the same order.
C8_VisibilityOverwrite ==
    [][ (Patched /\ VisibilityRequested)
        => LET before == TokensOf(scratchManifest.GalleryFlags)
               after  == TokensOf(scratchManifest'.GalleryFlags)
           IN  /\ "Public" \in Range(after)
                      <=> Contains(extensionVisibility, "public")
               /\ "Preview" \in Range(after)
                      <=> Contains(extensionVisibility, "preview")
               /\ ~PricingRequested =>
                      Without(after, {"Public", "Preview"})
                          = Without(before, {"Public", "Preview"}) ]_vars

\* C9: for a duplicate-free GalleryFlags text and a pricing request other
\* than "default": Paid is present after patching if the request contains
\* "paid", absent if it contains "free" and not "paid", and with neither
\* the token list is the one before; in all cases the tokens other than
\* Paid are the same, in the same order (no visibility request being
\* applied by the same patch).
C9_Pricing ==
    [][ (/\ Patched
         /\ PricingRequested
         /\ NoDup(TokensOf(scratchManifest.GalleryFlags)))
        => LET before == TokensOf(scratchManifest.GalleryFlags)
               after  == TokensOf(scratchManifest'.GalleryFlags)
               isFree == Contains(extensionPricing, "free")
               isPaid == Contains(extensionPricing, "paid")
           IN  /\ isPaid => "Paid" \in Range(after)
               /\ (isFree /\ ~isPaid) => "Paid" \notin Range(after)
               /\ ~VisibilityRequested =>
                     /\ (~isFree /\ ~isPaid) => after = before
                     /\ Without(after, {"Paid"}) = Without(before, {"Paid"})
           ]_vars

\* A patch has removed Paid, and nothing else, on the request "free".
C9_Witness ==
    /\ pc = "archive"
    /\ extensionPricing = "free"
    /\ extensionVisibility = NULL
    /\ inputManifest.GalleryFlags = "Public Paid Beta"
    /\ scratchManifest.GalleryFlags = "Public Beta"

\* C10: the token list of a GalleryFlagsEditor, constructed from any
\* space-delimited text and after any sequence of add and remove calls,
\* holds no token twice.
C10_NoDuplicates == NoDup(flags)

---------------------------------------------------------------------------
(* Properties of the round trip *)

\* A step that ends an endEdit call which had acquired a scratch directory.
Completes == pc # "idle" /\ pc' = "idle" /\ dirPath # NULL

\* C11: when a full round trip completes, by returning a path or by raising
\* an error after the scratch directory was acquired, that directory no
\* longer exists.
C11_ScratchReleased ==
    [][ Completes => dirPath \notin tempDirs' ]_vars

\* C12: when extractArchive or the tool part of createArchive finishes,
\* whether the tool succeeded or failed with an error, the process working
\* directory is the one it was when the operation began.
C12_CwdRestored ==
    [][ (Extract \/ Zip) => cwd' = cwd ]_vars

\* How many times the effect e occurs in the log s.
RECURSIVE Count(_, _)
Count(s, e) ==
    IF s = <<>> THEN 0
    ELSE (IF Head(s) = e THEN 1 ELSE 0) + Count(Tail(s), e)

\* An endEdit call that went beyond the fast path has completed.
RoundTripOver ==
    /\ pc = "idle"
    /\ ret.op = "endEdit"
    /\ ret.outcome # "pending"
    /\ effects # <<>>

\* C13: a round trip whose extraction tool invocation failed has raised an
\* error and has neither patched the manifest nor copied or compressed; a
\* round trip whose compression tool invocation failed has raised an error
\* and returned no path.
C13_ToolFailureIsFatal ==
    RoundTripOver =>
        /\ "extractFailed" \in Range(effects) =>
              /\ ret.outcome = "threw"
              /\ Range(effects) \cap {"writeManifest", "cp", "zip", "zipFailed"}
                     = {}
        /\ "zipFailed" \in Range(effects) => ret.outcome = "threw"

\* C14: a round trip that read a manifest it could not parse, or one
\* without an Identity node, has raised an error, and its execution holds no
\* manifest write, no copy and no compression.
C14_BadManifestIsFatal ==
    (ret.op = "endEdit" /\ ~inputManifest.wellFormed
         /\ "readManifest" \in Range(effects)) =>
        /\ pc = "idle"
        /\ ret.outcome = "threw"
        /\ Range(effects) \cap {"writeManifest", "resolveName", "cp", "zip",
                                "zipFailed"} = {}

C14_Witness ==
    /\ RoundTripOver
    /\ ret = Threw("endEdit")
    /\ inputManifest = Malformed
    /\ effects[Len(effects)] = "readManifest"

\* A round trip that has gone beyond the point of line 208, or returned.
PastTasksPoint ==
    \/ pc \in {"edit", "archive", "zip"}
    \/ RoundTripOver /\ ret.outcome = "returned"

\* C15: a round trip has run the nested-descriptor update exactly once when
\* a non-empty version edit is pending with updateTasksVersion true, or
\* updateTasksId is true (whatever the version edit), and not at all
\* otherwise.
C15_TasksUpdate ==
    PastTasksPoint =>
        Count(effects, "updateTasks") =
            (IF \/ versionNumber \notin {NULL, ""} /\ updateTasksVersion
                \/ updateTasksId
             THEN 1 ELSE 0)

C15_Witness ==
    /\ RoundTripOver
    /\ ret.outcome = "returned"
    /\ versionNumber = NULL
    /\ ~updateTasksVersion
    /\ updateTasksId
    /\ Count(effects, "updateTasks") = 1

\* The place of a logged step in the order of the claim: scratch
\* acquisition (0, 1), extraction (2), nested update (3), manifest patch
\* (4, 5), name resolution (6), copy (7), compression (8).
StepRank(e) ==
    CASE e = "temp.track"                   -> 0
      [] e = "mkdir"                        -> 1
      [] e \in {"extract", "extractFailed"} -> 2
      [] e = "updateTasks"                  -> 3
      [] e = "readManifest"                 -> 4
      [] e = "writeManifest"                -> 5
      [] e = "resolveName"                  -> 6
      [] e = "cp"                           -> 7
      [] e \in {"zip", "zipFailed"}         -> 8

RanksDone == { StepRank(effects[i]) : i \in 1..Len(effects) }

\* The steps every round trip takes; 3 and 7 are the conditional ones.
AlwaysTaken == {0, 1, 2, 4, 5, 6, 8}

\* C16: the steps of a round trip happen in the order scratch acquisition,
\* extraction, nested update (if any), manifest patch, name resolution,
\* copy, compression, each at most once and none before the unconditional
\* steps that precede it; a round trip that returns has taken all of them;
\* and the copy is left out exactly when the resolved name is the input
\* path.
C16_StepOrder ==
    /\ \A i \in 1..(Len(effects) - 1) :
          StepRank(effects[i]) < StepRank(effects[i + 1])
    /\ \A r \in RanksDone : { q \in AlwaysTaken : q < r } \subseteq RanksDone
    /\ (RoundTripOver /\ ret.outcome = "returned") =>
          AlwaysTaken \subseteq RanksDone
    /\ pc = "zip" =>
          ("cp" \in Range(effects) <=> manifestData.outputFileName # inputFile)
    /\ (RoundTripOver /\ ret.outcome = "returned") =>
          ("cp" \in Range(effects) <=> ret.value # inputFile)

\* A round trip that wrote over its input: no copy among its steps.
C16_Witness ==
    /\ RoundTripOver
    /\ ret = Returned("endEdit", inputFile)
    /\ effects = <<"temp.track", "mkdir", "extract", "updateTasks",
                   "readManifest", "writeManifest", "resolveName", "zip">>

\* C17: once the copy has been made (compression is about to begin), and
\* when endEdit has returned, no existence probe of the name resolution is
\* still waiting for its callback.
C17_NoPendingProbe ==
    (pc = "zip" \/ (RoundTripOver /\ ret.outcome = "returned")) => probes = {}

\* C18: in the patched manifest the Identity Id is a base followed by the
\* pending suffix: the base is the pending id when one is set and the Id of
\* the input manifest otherwise, the suffix is the pending idTag, or nothing
\* when none is set.  The suffix comes once, on top of a replacement.
C18_IdThenTag ==
    pc \in {"archive", "zip"} =>
        scratchManifest.Id =
            (IF id \notin {NULL, ""} THEN id ELSE inputManifest.Id)
            \o (IF idTag \notin {NULL, ""} THEN idTag ELSE "")

\* Both a replacement and a suffix pending: x has become yt.
C18_Witness ==
    /\ pc = "archive"
    /\ inputManifest.Id = "x"
    /\ id = "y"
    /\ idTag = "t"
    /\ scratchManifest.Id = "yt"

---------------------------------------------------------------------------
(* Properties of the token list *)

\* What adding the token t does in this step: nothing when the list holds
\* t, and otherwise t goes at the end behind the tokens there were.
AddLaw(t) ==
    IF t \in Range(flags) THEN flags' = flags ELSE flags' = Append(flags, t)

\* What removing the token t does in this step: nothing when the list does
\* not hold t, and in any case the other tokens stay as they were, in their
\* order.
RemoveLaw(t) ==
    /\ t \notin Range(flags) => flags' = flags
    /\ Without(flags', {t}) = Without(flags, {t})

\* C19: on any token list, adding a token that is there and removing one
\* that is not leave the list as it is; adding a token that is not there
\* puts it at the end; and no add or remove changes the order of the other
\* tokens.
C19_AddRemove ==
    [][ /\ CallAddPublicFlag     => AddLaw("Public")
        /\ CallAddPaidFlag       => AddLaw("Paid")
        /\ CallAddPreviewFlag    => AddLaw("Preview")
        /\ CallRemovePublicFlag  => RemoveLaw("Public")
        /\ CallRemovePaidFlag    => RemoveLaw("Paid")
        /\ CallRemovePreviewFlag => RemoveLaw("Preview") ]_vars

\* Paid was added to a list that held Preview and Public: it is the last.
C19_Witness ==
    /\ flagsIn = "Preview Public"
    /\ flagsOp = "addPaidFlag"
    /\ flags = <<"Preview", "Public", "Paid">>

---------------------------------------------------------------------------
(* Properties of the edit methods *)

\* The pending fields of the session, by name.
PendingFields ==
    [versionNumber       |-> versionNumber,
     id                  |-> id,
     idTag               |-> idTag,
     publisher           |-> publisher,
     extensionName       |-> extensionName,
     extensionVisibility |-> extensionVisibility,
     extensionPricing    |-> extensionPricing,
     updateTasksVersion  |-> updateTasksVersion,
     updateTasksId       |-> updateTasksId]

\* This step gives the pending field f the value v and leaves the started
\* flag, the input path and the other pending fields as they were.
Overwrites(f, v) ==
    /\ PendingFields' = [PendingFields EXCEPT ![f] = v]
    /\ edit' = edit
    /\ inputFile' = inputFile

\* C20: on a started session a call of an edit method with the value v
\* leaves v in the pending field of that method, whatever the field held,
\* and changes neither the started flag nor any other pending field.
C20_EditFrame ==
    [][ edit =>
        /\ \A v \in Versions :
              EditVersionTo(v) => Overwrites("versionNumber", v)
        /\ \A v \in Names :
              EditExtensionNameTo(v) => Overwrites("extensionName", v)
        /\ \A v \in Visibilities :
              EditExtensionVisibilityTo(v)
                  => Overwrites("extensionVisibility", v)
        /\ \A v \in Pricings :
              EditExtensionPricingTo(v) => Overwrites("extensionPricing", v)
        /\ \A v \in Ids : EditIdTo(v) => Overwrites("id", v)
        /\ \A v \in IdTags : EditIdTagTo(v) => Overwrites("idTag", v)
        /\ \A v \in Publishers :
              EditPublisherTo(v) => Overwrites("publisher", v)
        /\ \A v \in BOOLEAN :
              EditUpdateTasksVersionTo(v)
                  => Overwrites("updateTasksVersion", v)
        /\ \A v \in BOOLEAN :
              EditUpdateTasksIdTo(v) => Overwrites("updateTasksId", v) ]_vars

\* A started session after editVersion(""), editId("y") and
\* editUpdateTasksId(false), in some order: each call has left its value
\* and the values of the other calls are still there.
C20_Witness ==
    /\ edit
    /\ ret = Edited
    /\ versionNumber = ""
    /\ id = "y"
    /\ idTag = NULL
    /\ publisher = NULL
    /\ ~updateTasksId

===========================================================================
